---------------------------- MODULE Spec2Model ----------------------------
(***************************************************************************)
(* Prefix Sum Index (crate psy).                                           *)
(*                                                                         *)
(* The crate scans a slice of bytes, computing the prefix sum, and returns *)
(* the index of the first element whose prefix sum is greater than         *)
(* `lookup`, together with that prefix sum.  This module models            *)
(*   - the scalar scanner prefix_sum_fallback (lib.rs, fallback.rs),       *)
(*   - the SIMD kernels prefix_sum_8 (lib.rs), prefix_sum_8_inner (avx.rs) *)
(*     and prefix_sum_16_inner (avx2.rs), intrinsic by intrinsic, on       *)
(*     vectors of 16-bit lanes,                                            *)
(*   - the chunk walkers prefix_sum_index (lib.rs), prefix_sum_8 (avx.rs)  *)
(*     and prefix_sum_16 (avx2.rs), one loop iteration per step.           *)
(*                                                                         *)
(* Slices, arrays and vectors are functions on 0..n-1, so that indices and *)
(* lane numbers are the ones of the source.  A `Result` is a record with a *)
(* tag.  Lanes hold their 16-bit pattern as a number in 0..65535.          *)
(***************************************************************************)
EXTENDS Integers, FiniteSets, TLC

VARIABLES
    \* ---- a run of one chunk walker
    walker,     \* which walker runs: "index" (lib.rs), "avx" (avx.rs), "avx2" (avx2.rs)
    offsets,    \* the input slice
    lookup,     \* the lookup value
    start,      \* `start`: the sum accumulated over the chunks that failed
    index,      \* `index`: the index base of the current chunk
    consumed,   \* number of elements the `chunks_exact` iterator has yielded
    pc,         \* "idle", "loop" (at the head of the for loop), "done", "panic"
    result,     \* the returned Result once pc = "done"
    \* ---- a run of one chunk kernel
    kernel,     \* which kernel runs: "lib8", "avx8", "avx16"
    chunk,      \* the kernel's `offsets` array
    klookup,    \* the kernel's `lookup` argument
    mm,         \* the vector register `mm` (16-bit lanes)
    kstep,      \* number of shift-and-add statements executed
    cmp,        \* the comparison vector `cmp`, <<>> while not computed
    kpc,        \* "idle", "load", "add", "carry", "guard", "compare", "done"
    kres        \* the returned Result once kpc = "done"

wvars == <<walker, offsets, lookup, start, index, consumed, pc, result>>
kvars == <<kernel, chunk, klookup, mm, kstep, cmp, kpc, kres>>
vars == <<walker, offsets, lookup, start, index, consumed, pc, result,
          kernel, chunk, klookup, mm, kstep, cmp, kpc, kres>>

-----------------------------------------------------------------------------
(* Bounds of the model and constants of the program.                       *)

\* longest input slice given to a walker
MaxLen == 34
\* the byte values drawn are 0..MaxSmall and u8::MAX
MaxSmall == 1
\* u8::MAX
U8Max == 255
\* i16::MAX, the bound of the overflow guard
I16Max == 32767
\* a lookup far beyond the 16-bit range whose low 16 bits are zero, as the
\* tests' `1 << 34` is
BigLookup == 2^30

-----------------------------------------------------------------------------
(* Slices and results.                                                     *)

Len(s) == Cardinality(DOMAIN s)

\* s[from .. from + n), re-based at 0
Slice(s, from, n) == [k \in 0..(n - 1) |-> s[from + k]]

Ok(i, s) == [tag |-> "Ok", idx |-> i, sum |-> s]
Err(s) == [tag |-> "Err", idx |-> -1, sum |-> s]
Panic == [tag |-> "Panic", idx |-> -1, sum |-> -1]
None == [tag |-> "None", idx |-> -1, sum |-> -1]

\* sum(s[0..m]): the sum of the first m elements
RECURSIVE SumTo(_, _)
SumTo(s, m) == IF m = 0 THEN 0 ELSE SumTo(s, m - 1) + s[m - 1]

Total(s) == SumTo(s, Len(s))

-----------------------------------------------------------------------------
(* The scalar scanner.                                                     *)

RECURSIVE fallback_loop(_, _, _, _)
fallback_loop(offs, look, i, st) ==
    IF i = Len(offs) THEN Err(st)
    ELSE LET current == st + offs[i]
         IN  IF current > look THEN Ok(i, current)
             ELSE fallback_loop(offs, look, i + 1, current)

\* lib.rs
prefix_sum_fallback(offs, look) == fallback_loop(offs, look, 0, 0)

\* fallback.rs (the same text)
fallback_rs_prefix_sum_fallback(offs, look) == fallback_loop(offs, look, 0, 0)

-----------------------------------------------------------------------------
(* The x86 intrinsics the kernels use.  A __m128i is 8 lanes and a __m256i  *)
(* is 16 lanes of 16 bits; lane k is bytes 2k (low) and 2k+1 (high).        *)

\* the value of a 16-bit pattern read as i16
ToI16(x) == IF x >= 32768 THEN x - 65536 ELSE x

\* `v as i16` kept as its 16-bit pattern: the low 16 bits of v
AsI16Bits(v) == v % 65536

\* _mm_cvtepu8_epi16: zero-extend the low 8 bytes to 8 lanes
mm_cvtepu8_epi16(bytes) == [k \in 0..7 |-> bytes[k] % 256]

\* mutant: the bytes are sign-extended, as _mm256_cvtepi8_epi16 does
mm256_cvtepi8_epi16(bytes) ==
    [k \in 0..15 |-> IF bytes[k] % 256 >= 128 THEN (bytes[k] % 256) + 65280
                     ELSE bytes[k] % 256]

\* _mm256_cvtepu8_epi16: zero-extend 16 bytes to 16 lanes
mm256_cvtepu8_epi16(bytes) == [k \in 0..15 |-> bytes[k] % 256]

\* _mm_slli_si128::<imm8>: shift the 128 bits left by imm8 bytes (imm8 even),
\* shifting in zeros
mm_slli_si128(a, imm8) ==
    [k \in 0..7 |-> IF k - (imm8 \div 2) >= 0 THEN a[k - (imm8 \div 2)] ELSE 0]

\* _mm256_slli_si256::<imm8>: the same shift within each 128-bit half
mm256_slli_si256(a, imm8) ==
    [k \in 0..15 |->
        LET half == (k \div 8) * 8
            j == (k - half) - (imm8 \div 2)
        IN  IF j >= 0 THEN a[half + j] ELSE 0]

\* _mm_add_epi16 / _mm256_add_epi16: lane-wise wrapping addition
mm_add_epi16(a, b) == [k \in DOMAIN a |-> (a[k] + b[k]) % 65536]

\* _mm_set1_epi16 / _mm256_set1_epi16: broadcast a 16-bit pattern to n lanes
mm_set1_epi16(bits, n) == [k \in 0..(n - 1) |-> bits]

\* _mm256_extract_epi16::<i>: lane i, zero-extended to i32
mm256_extract_epi16(a, i) == a[i]

\* _mm256_set_m128i(hi, lo): lo in lanes 0..7, hi in lanes 8..15
mm256_set_m128i(hi, lo) == [k \in 0..15 |-> IF k < 8 THEN lo[k] ELSE hi[k - 8]]

\* _mm_setzero_si128
mm_setzero_si128 == [k \in 0..7 |-> 0]

\* _mm_cmpgt_epi16 / _mm256_cmpgt_epi16: signed a > b, all ones where true
mm_cmpgt_epi16(a, b) ==
    [k \in DOMAIN a |-> IF ToI16(a[k]) > ToI16(b[k]) THEN 65535 ELSE 0]

\* _mm_movemask_epi8 / _mm256_movemask_epi8: the top bit of every byte; the
\* i32 mask is kept as the set of its bits that are 1
mm_movemask_epi8(a) ==
    {2 * k : k \in {j \in DOMAIN a : (a[j] % 256) >= 128}}
    \cup {2 * k + 1 : k \in {j \in DOMAIN a : (a[j] \div 256) >= 128}}

\* i32::trailing_zeros: the lowest bit that is 1, 32 for a zero mask
trailing_zeros(mask) ==
    IF mask = {} THEN 32
    ELSE CHOOSE b \in mask : \A c \in mask : b <= c

-----------------------------------------------------------------------------
(* The kernels, statement by statement.                                    *)

\* mutant: the guard compares against u16::MAX
overflow_guard_u16(look) == look > 65535

\* the guard `if lookup > i16::MAX as usize`
overflow_guard(look) == look > I16Max

\* lib.rs prefix_sum_8: buf = [u64::from_le_bytes(*offsets), 0]; lddqu; widen
prefix_sum_8_load(offs) ==
    mm_cvtepu8_epi16([b \in 0..15 |-> IF b < 8 THEN offs[b] ELSE 0])

\* lib.rs prefix_sum_8: the three shift-and-add statements, by 8, 4, 2 bytes
prefix_sum_8_add(m, step) ==
    mm_add_epi16(m, mm_slli_si128(m, CASE step = 1 -> 8 [] step = 2 -> 4 [] OTHER -> 2))

\* lib.rs prefix_sum_8: compare, movemask, trailing_zeros, select
prefix_sum_8_cmp(m, look) == mm_cmpgt_epi16(m, mm_set1_epi16(AsI16Bits(look), 8))

prefix_sum_8_select(m, c) ==
    LET mask == mm_movemask_epi8(c)
        idx == trailing_zeros(mask) \div 2
    IN  IF idx > 7 THEN Err(m[7]) ELSE Ok(idx, m[idx])

\* mutant: no overflow guard before the comparison
prefix_sum_8_unguarded(offs, look) ==
    LET m == prefix_sum_8_add(prefix_sum_8_add(prefix_sum_8_add(
                 prefix_sum_8_load(offs), 1), 2), 3)
    IN  prefix_sum_8_select(m, prefix_sum_8_cmp(m, look))

\* lib.rs prefix_sum_8, whole
prefix_sum_8(offs, look) ==
    LET m == prefix_sum_8_add(prefix_sum_8_add(prefix_sum_8_add(
                 prefix_sum_8_load(offs), 1), 2), 3)
    IN  IF overflow_guard(look) THEN Err(m[7])
        ELSE prefix_sum_8_select(m, prefix_sum_8_cmp(m, look))

\* avx.rs prefix_sum_8_inner: zeroed __m128i, copy 8 bytes, load, widen
prefix_sum_8_inner_load(offs) ==
    mm_cvtepu8_epi16([b \in 0..15 |-> IF b < 8 THEN offs[b] ELSE 0])

\* avx.rs prefix_sum_8_inner: the three shift-and-add statements, by 8, 4, 2 bytes
prefix_sum_8_inner_add(m, step) ==
    mm_add_epi16(m, mm_slli_si128(m, CASE step = 1 -> 8 [] step = 2 -> 4 [] OTHER -> 2))

prefix_sum_8_inner_cmp(m, look) == mm_cmpgt_epi16(m, mm_set1_epi16(AsI16Bits(look), 8))

\* mutant: a hit in the last lane is taken for no hit
prefix_sum_8_inner_select_off_by_one(m, c) ==
    LET mask == mm_movemask_epi8(c)
        idx == trailing_zeros(mask) \div 2
    IN  IF idx >= 7 THEN Err(m[7]) ELSE Ok(idx, m[idx])

prefix_sum_8_inner_select(m, c) ==
    LET mask == mm_movemask_epi8(c)
        idx == trailing_zeros(mask) \div 2
    IN  IF idx > 7 THEN Err(m[7]) ELSE Ok(idx, m[idx])

\* avx.rs prefix_sum_8_inner, whole
prefix_sum_8_inner(offs, look) ==
    LET m == prefix_sum_8_inner_add(prefix_sum_8_inner_add(prefix_sum_8_inner_add(
                 prefix_sum_8_inner_load(offs), 1), 2), 3)
    IN  IF overflow_guard(look) THEN Err(m[7])
        ELSE prefix_sum_8_inner_select(m, prefix_sum_8_inner_cmp(m, look))

\* avx2.rs prefix_sum_16_inner: zeroed __m256i, copy 16 bytes, load 128 bits, widen
prefix_sum_16_inner_load(offs) ==
    mm256_cvtepu8_epi16([b \in 0..15 |-> offs[b]])

\* avx2.rs prefix_sum_16_inner: the three shift-and-add statements, by 2, 4, 8
\* bytes, each within the 128-bit halves
prefix_sum_16_inner_add(m, step) ==
    mm_add_epi16(m, mm256_slli_si256(m, CASE step = 1 -> 2 [] step = 2 -> 4 [] OTHER -> 8))

\* mutant: the carry is taken from lane 6
prefix_sum_16_inner_carry_lane6(m) ==
    LET hi == mm_set1_epi16(AsI16Bits(mm256_extract_epi16(m, 6)), 8)
        shifted == mm256_set_m128i(hi, mm_setzero_si128)
    IN  mm_add_epi16(m, shifted)

\* avx2.rs prefix_sum_16_inner: add lane 7 to every lane of the second half
prefix_sum_16_inner_carry(m) ==
    LET hi == mm_set1_epi16(AsI16Bits(mm256_extract_epi16(m, 7)), 8)
        shifted == mm256_set_m128i(hi, mm_setzero_si128)
    IN  mm_add_epi16(m, shifted)

prefix_sum_16_inner_cmp(m, look) == mm_cmpgt_epi16(m, mm_set1_epi16(AsI16Bits(look), 16))

prefix_sum_16_inner_select(m, c) ==
    LET mask == mm_movemask_epi8(c)
        idx == trailing_zeros(mask) \div 2
    IN  IF idx > 15 THEN Err(m[15]) ELSE Ok(idx, m[idx])

\* avx2.rs prefix_sum_16_inner, whole
prefix_sum_16_inner(offs, look) ==
    LET m == prefix_sum_16_inner_carry(
                 prefix_sum_16_inner_add(prefix_sum_16_inner_add(prefix_sum_16_inner_add(
                     prefix_sum_16_inner_load(offs), 1), 2), 3))
    IN  IF overflow_guard(look) THEN Err(m[15])
        ELSE prefix_sum_16_inner_select(m, prefix_sum_16_inner_cmp(m, look))

-----------------------------------------------------------------------------
(* The chunk walkers.  A walker's locals are the record                    *)
(* [start, index, consumed, pc, result]; *_chunk is one iteration of the   *)
(* for loop over `chunks_exact`, *_tail the code after the loop.           *)
(* `lookup - start` is a usize subtraction: it panics when start > lookup  *)
(* (overflow checks on; without them it would wrap modulo 2^64).           *)

Locals0 == [start |-> 0, index |-> 0, consumed |-> 0, pc |-> "loop", result |-> None]

Panicked(s) == [s EXCEPT !.pc = "panic", !.result = Panic]

\* chunks.remainder(): what is left when no full chunk of w elements remains
Remainder(offs, s) == Slice(offs, s.consumed, Len(offs) - s.consumed)

\* a zeroed buffer of w bytes with the remainder copied to its front
ZeroPadded(rem, w) == [b \in 0..(w - 1) |-> IF b < Len(rem) THEN rem[b] ELSE 0]

\* mutant: a hit returns the chunk's local sum, without `start`
prefix_sum_index_chunk_local_sum(offs, look, s) ==
    IF s.start > look THEN Panicked(s)
    ELSE LET r == prefix_sum_8(Slice(offs, s.consumed, 8), look - s.start)
         IN  IF r.tag = "Ok"
             THEN [s EXCEPT !.pc = "done", !.result = Ok(s.index + r.idx, r.sum)]
             ELSE [s EXCEPT !.start = s.start + r.sum,
                            !.index = s.index + 8,
                            !.consumed = s.consumed + 8]

\* lib.rs prefix_sum_index: one iteration of `for chunk in &mut chunks`
prefix_sum_index_chunk(offs, look, s) ==
    IF s.start > look THEN Panicked(s)
    ELSE LET r == prefix_sum_8(Slice(offs, s.consumed, 8), look - s.start)
         IN  IF r.tag = "Ok"
             THEN [s EXCEPT !.pc = "done",
                            !.result = Ok(s.index + r.idx, s.start + r.sum)]
             ELSE [s EXCEPT !.start = s.start + r.sum,
                            !.index = s.index + 8,
                            !.consumed = s.consumed + 8]

\* mutant: a miss returns the remainder's sum, without `start`
prefix_sum_index_tail_local_sum(offs, look, s) ==
    IF s.start > look THEN Panicked(s)
    ELSE LET r == prefix_sum_fallback(Remainder(offs, s), look - s.start)
         IN  [s EXCEPT !.pc = "done",
                       !.result = IF r.tag = "Ok"
                                  THEN Ok(s.index + r.idx, s.start + r.sum)
                                  ELSE Err(r.sum)]

\* lib.rs prefix_sum_index: the scalar scanner on chunks.remainder()
prefix_sum_index_tail(offs, look, s) ==
    IF s.start > look THEN Panicked(s)
    ELSE LET r == prefix_sum_fallback(Remainder(offs, s), look - s.start)
         IN  [s EXCEPT !.pc = "done",
                       !.result = IF r.tag = "Ok"
                                  THEN Ok(s.index + r.idx, s.start + r.sum)
                                  ELSE Err(s.start + r.sum)]

RECURSIVE prefix_sum_index_run(_, _, _)
prefix_sum_index_run(offs, look, s) ==
    IF s.pc # "loop" THEN s.result
    ELSE IF Len(offs) - s.consumed >= 8
         THEN prefix_sum_index_run(offs, look, prefix_sum_index_chunk(offs, look, s))
         ELSE prefix_sum_index_run(offs, look, prefix_sum_index_tail(offs, look, s))

\* lib.rs prefix_sum_index, whole
prefix_sum_index(offs, look) == prefix_sum_index_run(offs, look, Locals0)

\* mutant: index advances by 16 for a chunk of 8
avx_prefix_sum_8_chunk_index16(offs, look, s) ==
    IF s.start > look THEN Panicked(s)
    ELSE LET r == prefix_sum_8_inner(Slice(offs, s.consumed, 8), look - s.start)
         IN  IF r.tag = "Ok"
             THEN [s EXCEPT !.pc = "done",
                            !.result = Ok(s.index + r.idx, s.start + r.sum)]
             ELSE [s EXCEPT !.start = s.start + r.sum,
                            !.index = s.index + 16,
                            !.consumed = s.consumed + 8]

\* avx.rs prefix_sum_8: one iteration of `for chunk in &mut chunks`
avx_prefix_sum_8_chunk(offs, look, s) ==
    IF s.start > look THEN Panicked(s)
    ELSE LET r == prefix_sum_8_inner(Slice(offs, s.consumed, 8), look - s.start)
         IN  IF r.tag = "Ok"
             THEN [s EXCEPT !.pc = "done",
                            !.result = Ok(s.index + r.idx, s.start + r.sum)]
             ELSE [s EXCEPT !.start = s.start + r.sum,
                            !.index = s.index + 8,
                            !.consumed = s.consumed + 8]

\* mutant: the buffer is not zeroed
avx_prefix_sum_8_buf_ones(rem) == [b \in 0..7 |-> IF b < Len(rem) THEN rem[b] ELSE 1]

\* avx.rs prefix_sum_8: the buffer the remainder is copied into
avx_prefix_sum_8_buf(rem) == ZeroPadded(rem, 8)

\* avx.rs prefix_sum_8: the kernel on the zero-padded remainder
avx_prefix_sum_8_tail(offs, look, s) ==
    IF s.start > look THEN Panicked(s)
    ELSE LET r == prefix_sum_8_inner(avx_prefix_sum_8_buf(Remainder(offs, s)),
                                     look - s.start)
         IN  [s EXCEPT !.pc = "done",
                       !.result = IF r.tag = "Ok"
                                  THEN Ok(s.index + r.idx, s.start + r.sum)
                                  ELSE Err(s.start + r.sum)]

RECURSIVE avx_prefix_sum_8_run(_, _, _)
avx_prefix_sum_8_run(offs, look, s) ==
    IF s.pc # "loop" THEN s.result
    ELSE IF Len(offs) - s.consumed >= 8
         THEN avx_prefix_sum_8_run(offs, look, avx_prefix_sum_8_chunk(offs, look, s))
         ELSE avx_prefix_sum_8_run(offs, look, avx_prefix_sum_8_tail(offs, look, s))

\* avx.rs prefix_sum_8, whole
avx_prefix_sum_8(offs, look) == avx_prefix_sum_8_run(offs, look, Locals0)

\* avx2.rs prefix_sum_16: one iteration of `for chunk in &mut chunks`; the
\* chunks are 16 elements and the code has `index += 8`
prefix_sum_16_chunk(offs, look, s) ==
    IF s.start > look THEN Panicked(s)
    ELSE LET r == prefix_sum_16_inner(Slice(offs, s.consumed, 16), look - s.start)
         IN  IF r.tag = "Ok"
             THEN [s EXCEPT !.pc = "done",
                            !.result = Ok(s.index + r.idx, s.start + r.sum)]
             ELSE [s EXCEPT !.start = s.start + r.sum,
                            !.index = s.index + 8,
                            !.consumed = s.consumed + 16]

\* avx2.rs prefix_sum_16: the buffer the remainder is copied into
prefix_sum_16_buf(rem) == ZeroPadded(rem, 16)

\* avx2.rs prefix_sum_16: the kernel on the zero-padded remainder
prefix_sum_16_tail(offs, look, s) ==
    IF s.start > look THEN Panicked(s)
    ELSE LET r == prefix_sum_16_inner(prefix_sum_16_buf(Remainder(offs, s)),
                                      look - s.start)
         IN  [s EXCEPT !.pc = "done",
                       !.result = IF r.tag = "Ok"
                                  THEN Ok(s.index + r.idx, s.start + r.sum)
                                  ELSE Err(s.start + r.sum)]

RECURSIVE prefix_sum_16_run(_, _, _)
prefix_sum_16_run(offs, look, s) ==
    IF s.pc # "loop" THEN s.result
    ELSE IF Len(offs) - s.consumed >= 16
         THEN prefix_sum_16_run(offs, look, prefix_sum_16_chunk(offs, look, s))
         ELSE prefix_sum_16_run(offs, look, prefix_sum_16_tail(offs, look, s))

\* avx2.rs prefix_sum_16, whole
prefix_sum_16(offs, look) == prefix_sum_16_run(offs, look, Locals0)

-----------------------------------------------------------------------------
(* Inputs.                                                                 *)

\* the byte values drawn
Bytes == (0..MaxSmall) \cup {U8Max}

\* the slices of n bytes that are `base` everywhere but at one position
Family(n) ==
    IF n = 0 THEN {[k \in {} |-> 0]}
    ELSE {[k \in 0..(n - 1) |-> IF k = p THEN v ELSE base] :
              base \in Bytes, v \in Bytes, p \in 0..(n - 1)}

\* the slices of n bytes that are `base` everywhere but at two positions
Family2(n) ==
    {[k \in 0..(n - 1) |-> IF k = p THEN v ELSE IF k = q THEN w ELSE base] :
         base \in Bytes, v \in Bytes, w \in Bytes, p \in 0..(n - 1), q \in 0..(n - 1)}

\* the lookups drawn for a slice: around zero, around one byte, around the
\* slice's total and its fractions, around i16::MAX and u16::MAX, and far beyond
LookupsFor(s) ==
    {l \in {0, 1, 2, U8Max - 1, U8Max, U8Max + 1,
            Total(s) \div 4, Total(s) \div 2, Total(s) - 1, Total(s), Total(s) + 1,
            I16Max, I16Max + 1, 65535, 65536, BigLookup} : l >= 0}

\* the crate documentation's example, and test_combined's (lib.rs)
DocOffsets == [k \in 0..9 |-> <<0, 1, 0, 4, 8, 1, 2, 9, 8, 1>>[k + 1]]
DocLookups == {0, 1, 7, 16, 21, 25, 34, 35, 78}

\* test_simd_8's array (lib.rs, avx.rs)
Test8Offsets == [k \in 0..7 |-> <<0, 1, 0, 4, 8, 1, 2, 9>>[k + 1]]
Test8Lookups == {0, 1, 7, 16, 25}

\* test_simd_16's array (avx2.rs)
Test16Offsets ==
    [k \in 0..15 |-> <<0, 1, 0, 4, 8, 1, 2, 9, 8, 1, 4, 1, 3, 7, 1, 6>>[k + 1]]
Test16Lookups == {0, 1, 7, 16, 25, 52, 60}

-----------------------------------------------------------------------------
(* Specification Spec: a run of one walker on one input.                   *)

KernelIdle ==
    /\ kernel = "none" /\ chunk = <<>> /\ klookup = 0 /\ mm = <<>>
    /\ kstep = 0 /\ cmp = <<>> /\ kpc = "idle" /\ kres = None

WalkerIdle ==
    /\ walker = "none" /\ offsets = <<>> /\ lookup = 0 /\ start = 0
    /\ index = 0 /\ consumed = 0 /\ pc = "idle" /\ result = None

Init ==
    /\ walker \in {"index", "avx", "avx2"}
    /\ \/ \E n \in 0..MaxLen : offsets \in Family(n) /\ lookup \in LookupsFor(offsets)
       \/ offsets = DocOffsets /\ lookup \in DocLookups
    /\ start = 0 /\ index = 0 /\ consumed = 0
    /\ pc = "loop" /\ result = None
    /\ KernelIdle

Locals == [start |-> start, index |-> index, consumed |-> consumed,
           pc |-> pc, result |-> result]

SetLocals(s) ==
    /\ start' = s.start /\ index' = s.index /\ consumed' = s.consumed
    /\ pc' = s.pc /\ result' = s.result
    /\ UNCHANGED <<walker, offsets, lookup>>
    /\ UNCHANGED kvars

Index_Chunk ==
    /\ walker = "index" /\ pc = "loop" /\ Len(offsets) - consumed >= 8
    /\ SetLocals(prefix_sum_index_chunk(offsets, lookup, Locals))

Index_Tail ==
    /\ walker = "index" /\ pc = "loop" /\ Len(offsets) - consumed < 8
    /\ SetLocals(prefix_sum_index_tail(offsets, lookup, Locals))

Avx_Chunk ==
    /\ walker = "avx" /\ pc = "loop" /\ Len(offsets) - consumed >= 8
    /\ SetLocals(avx_prefix_sum_8_chunk(offsets, lookup, Locals))

Avx_Tail ==
    /\ walker = "avx" /\ pc = "loop" /\ Len(offsets) - consumed < 8
    /\ SetLocals(avx_prefix_sum_8_tail(offsets, lookup, Locals))

Avx2_Chunk ==
    /\ walker = "avx2" /\ pc = "loop" /\ Len(offsets) - consumed >= 16
    /\ SetLocals(prefix_sum_16_chunk(offsets, lookup, Locals))

Avx2_Tail ==
    /\ walker = "avx2" /\ pc = "loop" /\ Len(offsets) - consumed < 16
    /\ SetLocals(prefix_sum_16_tail(offsets, lookup, Locals))

Next ==
    \/ Index_Chunk
    \/ Index_Tail
    \/ Avx_Chunk
    \/ Avx_Tail
    \/ Avx2_Chunk
    \/ Avx2_Tail

Spec == Init /\ [][Next]_vars

-----------------------------------------------------------------------------
(* Specification SpecKernel: a run of one kernel on one chunk, statement   *)
(* by statement.                                                           *)

InitKernel ==
    /\ \/ kernel \in {"lib8", "avx8"}
          /\ \/ chunk \in Family2(8) /\ klookup \in LookupsFor(chunk)
             \/ chunk = Test8Offsets /\ klookup \in Test8Lookups
       \/ kernel = "avx16"
          /\ \/ chunk \in Family2(16) /\ klookup \in LookupsFor(chunk)
             \/ chunk = Test16Offsets /\ klookup \in Test16Lookups
    /\ mm = <<>> /\ kstep = 0 /\ cmp = <<>> /\ kpc = "load" /\ kres = None
    /\ WalkerIdle

\* the position after the n-th shift-and-add statement
AfterAdd(n, after) == IF n = 3 THEN after ELSE "add"

Lib8_Load ==
    /\ kernel = "lib8" /\ kpc = "load"
    /\ mm' = prefix_sum_8_load(chunk)
    /\ kpc' = "add"
    /\ UNCHANGED <<kernel, chunk, klookup, kstep, cmp, kres>> /\ UNCHANGED wvars

Lib8_Add ==
    /\ kernel = "lib8" /\ kpc = "add"
    /\ mm' = prefix_sum_8_add(mm, kstep + 1)
    /\ kstep' = kstep + 1
    /\ kpc' = AfterAdd(kstep + 1, "guard")
    /\ UNCHANGED <<kernel, chunk, klookup, cmp, kres>> /\ UNCHANGED wvars

Lib8_Guard ==
    /\ kernel = "lib8" /\ kpc = "guard"
    /\ IF overflow_guard(klookup)
       THEN kres' = Err(mm[7]) /\ kpc' = "done"
       ELSE kres' = kres /\ kpc' = "compare"
    /\ UNCHANGED <<kernel, chunk, klookup, mm, kstep, cmp>> /\ UNCHANGED wvars

Lib8_Compare ==
    /\ kernel = "lib8" /\ kpc = "compare"
    /\ cmp' = prefix_sum_8_cmp(mm, klookup)
    /\ kres' = prefix_sum_8_select(mm, cmp')
    /\ kpc' = "done"
    /\ UNCHANGED <<kernel, chunk, klookup, mm, kstep>> /\ UNCHANGED wvars

Avx8_Load ==
    /\ kernel = "avx8" /\ kpc = "load"
    /\ mm' = prefix_sum_8_inner_load(chunk)
    /\ kpc' = "add"
    /\ UNCHANGED <<kernel, chunk, klookup, kstep, cmp, kres>> /\ UNCHANGED wvars

Avx8_Add ==
    /\ kernel = "avx8" /\ kpc = "add"
    /\ mm' = prefix_sum_8_inner_add(mm, kstep + 1)
    /\ kstep' = kstep + 1
    /\ kpc' = AfterAdd(kstep + 1, "guard")
    /\ UNCHANGED <<kernel, chunk, klookup, cmp, kres>> /\ UNCHANGED wvars

Avx8_Guard ==
    /\ kernel = "avx8" /\ kpc = "guard"
    /\ IF overflow_guard(klookup)
       THEN kres' = Err(mm[7]) /\ kpc' = "done"
       ELSE kres' = kres /\ kpc' = "compare"
    /\ UNCHANGED <<kernel, chunk, klookup, mm, kstep, cmp>> /\ UNCHANGED wvars

Avx8_Compare ==
    /\ kernel = "avx8" /\ kpc = "compare"
    /\ cmp' = prefix_sum_8_inner_cmp(mm, klookup)
    /\ kres' = prefix_sum_8_inner_select(mm, cmp')
    /\ kpc' = "done"
    /\ UNCHANGED <<kernel, chunk, klookup, mm, kstep>> /\ UNCHANGED wvars

Avx16_Load ==
    /\ kernel = "avx16" /\ kpc = "load"
    /\ mm' = prefix_sum_16_inner_load(chunk)
    /\ kpc' = "add"
    /\ UNCHANGED <<kernel, chunk, klookup, kstep, cmp, kres>> /\ UNCHANGED wvars

Avx16_Add ==
    /\ kernel = "avx16" /\ kpc = "add"
    /\ mm' = prefix_sum_16_inner_add(mm, kstep + 1)
    /\ kstep' = kstep + 1
    /\ kpc' = AfterAdd(kstep + 1, "carry")
    /\ UNCHANGED <<kernel, chunk, klookup, cmp, kres>> /\ UNCHANGED wvars

Avx16_Carry ==
    /\ kernel = "avx16" /\ kpc = "carry"
    /\ mm' = prefix_sum_16_inner_carry(mm)
    /\ kpc' = "guard"
    /\ UNCHANGED <<kernel, chunk, klookup, kstep, cmp, kres>> /\ UNCHANGED wvars

Avx16_Guard ==
    /\ kernel = "avx16" /\ kpc = "guard"
    /\ IF overflow_guard(klookup)
       THEN kres' = Err(mm[15]) /\ kpc' = "done"
       ELSE kres' = kres /\ kpc' = "compare"
    /\ UNCHANGED <<kernel, chunk, klookup, mm, kstep, cmp>> /\ UNCHANGED wvars

Avx16_Compare ==
    /\ kernel = "avx16" /\ kpc = "compare"
    /\ cmp' = prefix_sum_16_inner_cmp(mm, klookup)
    /\ kres' = prefix_sum_16_inner_select(mm, cmp')
    /\ kpc' = "done"
    /\ UNCHANGED <<kernel, chunk, klookup, mm, kstep>> /\ UNCHANGED wvars

NextKernel ==
    \/ Lib8_Load
    \/ Lib8_Add
    \/ Lib8_Guard
    \/ Lib8_Compare
    \/ Avx8_Load
    \/ Avx8_Add
    \/ Avx8_Guard
    \/ Avx8_Compare
    \/ Avx16_Load
    \/ Avx16_Add
    \/ Avx16_Carry
    \/ Avx16_Guard
    \/ Avx16_Compare

SpecKernel == InitKernel /\ [][NextKernel]_vars

-----------------------------------------------------------------------------
(* Properties.                                                             *)

\* some index has a prefix sum greater than look
Exceeds(offs, look) == \E i \in DOMAIN offs : SumTo(offs, i + 1) > look

\* C1: when prefix_sum_index returns Ok((i, s)), s is the sum of
\* offsets[0..=i], s > lookup and the sum of offsets[0..i] is <= lookup (i is
\* the smallest index whose prefix sum exceeds lookup); and it returns Ok
\* whenever some index has a prefix sum greater than lookup.
C1_FoundSound ==
    (walker = "index" /\ pc = "done") =>
        /\ result.tag = "Ok" =>
              /\ result.idx \in DOMAIN offsets
              /\ result.sum = SumTo(offsets, result.idx + 1)
              /\ result.sum > lookup
              /\ SumTo(offsets, result.idx) <= lookup
        /\ Exceeds(offsets, lookup) => result.tag = "Ok"

\* prefix_sum_index has returned Ok at an index past two full chunks, in the
\* remainder
C1_Witness ==
    /\ walker = "index" /\ pc = "done" /\ result.tag = "Ok"
    /\ consumed = 16 /\ result.idx > 16 /\ start > 0

\* C2: when prefix_sum_index returns Err(s), s is the sum of all offsets and
\* s <= lookup; on the empty slice it returns Err(0) for every lookup.
C2_NotFoundSound ==
    (walker = "index" /\ pc = "done") =>
        /\ result.tag = "Err" => (result.sum = Total(offsets) /\ result.sum <= lookup)
        /\ Len(offsets) = 0 => result = Err(0)

\* prefix_sum_index has returned Err after full chunks and a non-empty
\* remainder, with a non-zero total
C2_Witness ==
    /\ walker = "index" /\ pc = "done" /\ result.tag = "Err"
    /\ consumed >= 8 /\ Len(offsets) > consumed /\ result.sum > start /\ start > 0

\* C3: prefix_sum_16 (avx2.rs) returns the same Result as the scalar
\* prefix_sum_fallback, on slices of any length.
C3_Equiv16 ==
    (walker = "avx2" /\ pc = "done") =>
        result = fallback_rs_prefix_sum_fallback(offsets, lookup)

\* C4: prefix_sum_8 (avx.rs), which zero-pads the trailing partial block,
\* returns the same Result as the scalar prefix_sum_fallback, on slices of any
\* length.
C4_Equiv8 ==
    (walker = "avx" /\ pc = "done") =>
        result = fallback_rs_prefix_sum_fallback(offsets, lookup)

\* prefix_sum_8 (avx.rs) has returned Ok from the zero-padded partial block
\* that follows two full chunks
C4_Witness ==
    /\ walker = "avx" /\ pc = "done" /\ result.tag = "Ok"
    /\ consumed = 16 /\ Len(offsets) > 17 /\ Len(offsets) < 24 /\ result.idx > 16

\* C5: for a fixed slice and lookups L1 <= L2: if prefix_sum_index returns Ok
\* for both, the index for L1 is <= the index for L2; and if it returns Err
\* for L1 it returns Err for L2.
C5_Monotone ==
    (walker = "index" /\ pc = "done") =>
        \A L2 \in LookupsFor(offsets) \cup DocLookups :
            lookup <= L2 =>
                LET r2 == prefix_sum_index(offsets, L2)
                IN  /\ (result.tag = "Ok" /\ r2.tag = "Ok") => result.idx <= r2.idx
                    /\ result.tag = "Err" => r2.tag = "Err"

\* prefix_sum_index has returned Ok for a lookup for which a larger lookup
\* drawn for the slice gives Ok at a strictly larger index, in another chunk
C5_Witness ==
    /\ walker = "index" /\ pc = "done" /\ result.tag = "Ok"
    /\ \E L2 \in LookupsFor(offsets) :
          /\ lookup < L2
          /\ prefix_sum_index(offsets, L2).tag = "Ok"
          /\ prefix_sum_index(offsets, L2).idx >= result.idx + 8

\* C6: in every chunk walker, whenever a chunk kernel or the tail handler is
\* about to be invoked, index is the number of elements of the chunks already
\* consumed and start is the sum of those elements.
C6_Accumulators ==
    pc = "loop" => (index = consumed /\ start = SumTo(offsets, consumed))

\* C7: in every chunk walker, wherever `lookup - start` is computed (for each
\* full chunk and for the tail), start <= lookup, so the subtraction never
\* underflows; also after a chunk that failed through the overflow guard.
C7_NoUnderflow ==
    /\ pc = "loop" => start <= lookup
    /\ pc # "panic"

\* a walker is about to compute `lookup - start` after a chunk failed through
\* the overflow guard (lookup > i16::MAX), with an adjusted lookup that is now
\* within the guard
C7_Witness ==
    /\ pc = "loop" /\ consumed > 0 /\ start > 0
    /\ overflow_guard(lookup) /\ ~overflow_guard(lookup - start)

\* C8: for every 16-element chunk and every lookup <= 32767, after
\* prefix_sum_16_inner lane k holds the sum of chunk[0..=k] for all k in
\* 0..15, and the kernel returns what prefix_sum_fallback returns on the
\* chunk: Ok((k, lane k)) for the lowest lane k whose prefix sum is > lookup,
\* else Err(lane 15).
C8_Kernel16 ==
    (kernel = "avx16" /\ kpc = "done" /\ klookup <= I16Max) =>
        /\ \A k \in 0..15 : mm[k] = SumTo(chunk, k + 1)
        /\ kres = prefix_sum_fallback(chunk, klookup)
        /\ kres.tag = "Ok" =>
              /\ kres.sum = mm[kres.idx] /\ mm[kres.idx] > klookup
              /\ \A j \in 0..(kres.idx - 1) : mm[j] <= klookup
        /\ kres.tag = "Err" =>
              /\ kres.sum = mm[15]
              /\ \A j \in 0..15 : mm[j] <= klookup

\* prefix_sum_16_inner has returned Ok at a lane of the second half whose
\* prefix sum includes non-zero elements of both halves
C8_Witness ==
    /\ kernel = "avx16" /\ kpc = "done" /\ klookup <= I16Max
    /\ kres.tag = "Ok" /\ kres.idx > 8
    /\ mm[7] > 0 /\ kres.sum > mm[7] + chunk[kres.idx]

C10_ZeroPadding ==
    (pc = "done" /\ walker \in {"avx", "avx2"}) =>
        /\ result.tag = "Ok" => result.idx < Len(offsets)
        /\ Len(offsets) - consumed < (IF walker = "avx" THEN 8 ELSE 16) =>
              LET r == fallback_rs_prefix_sum_fallback(
                           Slice(offsets, consumed, Len(offsets) - consumed),
                           lookup - start)
              IN  result = IF r.tag = "Ok" THEN Ok(index + r.idx, start + r.sum)
                           ELSE Err(start + r.sum)

\* a walker has returned Ok at the last real element of a zero-padded
\* trailing block that follows a full chunk
C10_Witness ==
    /\ pc = "done" /\ walker \in {"avx", "avx2"} /\ result.tag = "Ok"
    /\ consumed > 0
    /\ Len(offsets) - consumed \in 1..6
    /\ result.sum - start = Total(Slice(offsets, consumed, Len(offsets) - consumed))
    /\ offsets[Len(offsets) - 1] > 0

\* the number of lanes of the running kernel
KernelWidth == IF kernel = "avx16" THEN 16 ELSE 8

\* C11: in the width-8 and width-16 kernels every 16-bit lane, after the byte
\* widening, after each shift-and-add statement and after the cross-half
\* carry, is at most 8 * 255 = 2040 (width 8) or 16 * 255 = 4080 (width 16):
\* it never exceeds 32767 and is never negative as an i16.
C11_LaneBound ==
    kpc \in {"add", "carry", "guard", "compare", "done"} =>
        \A k \in DOMAIN mm :
            /\ mm[k] <= KernelWidth * U8Max
            /\ mm[k] <= I16Max
            /\ ToI16(mm[k]) >= 0

\* prefix_sum_16_inner has executed the widening, the three shift-and-add
\* statements and the carry on 16 elements of 255: the last lane holds 4080
C11_Witness ==
    /\ kernel = "avx16" /\ kpc = "guard" /\ kstep = 3
    /\ \A k \in 0..15 : chunk[k] = U8Max
    /\ mm[15] = 16 * U8Max /\ mm[7] = 8 * U8Max

=============================================================================
